---- MODULE Spec2Model ----
(***************************************************************************)
(* react-image-svg: renderSvgAsImage (src/src/index.ts) as a state         *)
(* machine.  One run of renderSvgAsImage is a sequence of synchronous      *)
(* segments separated by its suspension points: the await of the rendering *)
(* callback (line 105), the await of copyToCanvas, i.e. of the image load  *)
(* event (lines 120, 247-254), and the adoption of the promise returned by *)
(* toOutput (lines 121-125, 270).  Each action below is one such segment.  *)
(*                                                                         *)
(* Lengths (bounding box sides, the scale) are rationals n/Den, kept as    *)
(* their numerator n.                                                      *)
(***************************************************************************)
EXTENDS Integers, Sequences, FiniteSets, TLC

----------------------------------------------------------------------------
(* Bounds *)

\* number of runs of renderSvgAsImage that may be in flight together
NumRuns == 2
\* lengths are multiples of 1/Den
Den == 2
\* bounding box sides are 1/Den .. MaxDim/Den (and the README's 100)
MaxDim == 3
\* scales are 1/Den .. MaxScale/Den
MaxScale == 4

\* a tree given to normaliseSvg or inlineStyles alone has a root and
\* MaxTree more elements
MaxTree == 3
\* and ignoreAllSelectors has up to MaxSels selectors
MaxSels == 2

Runs == 1..NumRuns
\* the runs of the sequential specification Spec
SeqRuns == {1}

Dims == (1..MaxDim) \cup {100 * Den}
Scales == 1..MaxScale

----------------------------------------------------------------------------
(* The enumerations and the options *)

ImageFormat == {"png", "jpeg", "webp"}
ImageOutput == {"data_url", "blob"}

\* error messages thrown by the code
ErrNoRenderer == "You must call setDomRenderer before calling renderSvgAsImage"
ErrNoRoot     == "Could not find element with selector"
ErrFormat     == "Invalid image format"
ErrOutput     == "Invalid image output"
ErrRender     == "renderer rejected"
ErrRenderOther == "renderer rejected for another reason"
ErrDestructure == "TypeError: Cannot destructure property 'format' of 'undefined'"
ErrNoSvg      == "Could not find a rendered SVG"
ErrSyntax     == "SyntaxError: not a valid selector"
ErrNoContext  == "Could not get canvas context"
ErrEncode     == "Could not convert canvas to blob"
ErrNoTarget   == "TypeError: Cannot read properties of undefined (reading 'style')"
NoError       == "no error"

ConfigErrors == {ErrNoRenderer, ErrNoRoot, ErrFormat, ErrOutput}

\* what the renderer may reject with
RenderErrors == {ErrRender, ErrRenderOther}

\* the defaults of the destructured options parameter
DefaultOptions ==
  [format |-> "png", injectSelector |-> "body", output |-> "data_url",
   scale |-> Den, throwErrors |-> TRUE, ignoreAllSelectors |-> <<>>]

\* the options of a call without the options argument: no default is applied,
\* the parameter is never destructured
Undefined ==
  [format |-> "undefined", injectSelector |-> "undefined", output |-> "undefined",
   scale |-> Den, throwErrors |-> TRUE, ignoreAllSelectors |-> <<>>]

\* options a caller may pass in the sequential specification
SeqOptions ==
  [format : ImageFormat \cup {"gif"},
   injectSelector : {"body", "#app", "#missing"},
   output : ImageOutput \cup {"file"},
   scale : Scales,
   throwErrors : BOOLEAN,
   ignoreAllSelectors : {<<>>, <<".slot">>, <<"circle", "!">>}]

\* options a caller may pass in the concurrent specification
ConcOptions ==
  [format : {"png"},
   injectSelector : {"body", "#app", ".slot"},
   output : ImageOutput,
   scale : {Den},
   throwErrors : {TRUE},
   ignoreAllSelectors : {<<>>}]
  \cup
  [format : {"png"},
   injectSelector : {"body"},
   output : {"data_url"},
   scale : {Den},
   throwErrors : {TRUE},
   ignoreAllSelectors : {<<".slot">>}]

----------------------------------------------------------------------------
(* The document: a tree of elements, each with its ordered children *)

Body == <<"body", 0>>
App  == <<"app", 0>>
None == <<"none", 0>>
Container(r) == <<"c", r>>
Svg(r)       == <<"svg", r>>
Slot(r)      == <<"slot", r>>
Circle(r)    == <<"circle", r>>

\* the elements of a tree given to normaliseSvg or inlineStyles alone: the
\* root <svg> and, at position i, an element with one of the tags
TreeRoot == <<"svg", 0>>
TreeTags == {"slot", "circle", "svg"}
TreeNode(tag, i) == <<tag, 0 - i>>
TreeNodes == {TreeRoot} \cup {TreeNode(tag, i) : tag \in TreeTags, i \in 1..MaxTree}

Nodes == {Body, App} \cup
         {<<k, r>> : k \in {"c", "svg", "slot", "circle"}, r \in Runs} \cup
         TreeNodes

\* the elements below the elements of s, in document order
RECURSIVE DescSeq(_, _)
DescSeq(d, s) ==
  IF s = <<>> THEN <<>>
  ELSE <<Head(s)>> \o DescSeq(d, d[Head(s)]) \o DescSeq(d, Tail(s))

Descendants(d, n) == DescSeq(d, d[n])

\* the elements of the document, in document order
DocumentElements(d) == <<Body>> \o Descendants(d, Body)

InSeq(x, s) == \E i \in 1..Len(s) : s[i] = x

Attached(d, n) == InSeq(n, DocumentElements(d))

ParentOf(d, n) ==
  IF \E p \in Nodes : InSeq(n, d[p])
  THEN CHOOSE p \in Nodes : InSeq(n, d[p])
  ELSE None

ValidSelector(sel) == sel # "!"

\* whether element n of the tree d matches the selector: by its tag, id or
\* class, or (":empty") by having no children
Matches(d, n, sel) ==
  CASE sel = "body"   -> n[1] = "body"
    [] sel = "#app"   -> n[1] = "app"
    [] sel = "svg"    -> n[1] = "svg"
    [] sel = ".slot"  -> n[1] = "slot"
    [] sel = "circle" -> n[1] = "circle"
    [] sel = ":empty" -> d[n] = <<>>
    [] OTHER          -> FALSE

\* the elements of s that match sel, in order
MatchesIn(d, s, sel) == SelectSeq(s, LAMBDA n : Matches(d, n, sel))

FirstOrNone(s) == IF s = <<>> THEN None ELSE Head(s)

\* document.querySelector(sel)
DocQuerySelector(d, sel) == FirstOrNone(MatchesIn(d, DocumentElements(d), sel))

\* element.querySelector(sel), element.querySelectorAll(sel)
QuerySelectorAll(d, n, sel) == MatchesIn(d, Descendants(d, n), sel)
QuerySelector(d, n, sel) == FirstOrNone(QuerySelectorAll(d, n, sel))

\* parent.removeChild(n)
RemoveChild(d, p, n) == [d EXCEPT ![p] = SelectSeq(@, LAMBDA x : x # n)]

----------------------------------------------------------------------------
VARIABLES
  renderAsPromise,  \* whether setDomRenderer has registered a renderer
  dom,              \* the children of every element
  pc,               \* where each run is suspended
  opts,             \* the options each run was called with
  root,             \* injectorRoot of each run
  img,              \* the <img> of copyToCanvas: none, loading, loaded, error
  canvas,           \* the canvas of copyToCanvas
  result,           \* the promise renderSvgAsImage returned
  log,              \* the steps each run has executed, in order
  peers,            \* the other runs whose containers were in the document
                    \* when the run removed its own
  pure              \* normaliseSvg or inlineStyles applied alone: its
                    \* arguments and, once applied, what it left

vars == <<renderAsPromise, dom, pc, opts, root, img, canvas, result, log, peers,
          pure>>

Pending     == [status |-> "pending", type |-> "none", mime |-> "", text |-> ""]
EmptyString == [type |-> "string", mime |-> "", text |-> ""]
Resolved(v) == [status |-> "resolved", type |-> v.type, mime |-> v.mime, text |-> v.text]
Rejected(e) == [status |-> "rejected", type |-> "error", mime |-> "", text |-> e]

NoCanvas == [width |-> 0, height |-> 0, styleWidth |-> 0, styleHeight |-> 0]

MainInit ==
  /\ renderAsPromise = FALSE
  /\ dom = [n \in Nodes |-> IF n = Body THEN <<App>> ELSE <<>>]
  /\ pc = [r \in Runs |-> "idle"]
  /\ opts = [r \in Runs |-> DefaultOptions]
  /\ root = [r \in Runs |-> None]
  /\ img = [r \in Runs |-> "none"]
  /\ canvas = [r \in Runs |-> NoCanvas]
  /\ result = [r \in Runs |-> Pending]
  /\ log = [r \in Runs |-> <<>>]
  /\ peers = [r \in Runs |-> {}]

\* a tree with no element in it, and elements with no style set
NoTree == [n \in Nodes |-> <<>>]
NoStyle == [fill |-> "", visibility |-> ""]

PureIdle ==
  [op |-> "none", phase |-> "idle", src |-> NoTree, tgt |-> NoTree,
   sels |-> <<>>, cs |-> NoStyle, style0 |-> NoStyle,
   style |-> [n \in TreeNodes |-> NoStyle], err |-> NoError]

Init == MainInit /\ pure = PureIdle

----------------------------------------------------------------------------
(* The functions of index.ts *)

\* renderSvgAsImage, lines 86-101: the checks made before the container is
\* created; the error thrown, or NoError
\* (mutant) the format is not checked
ConfigErrorNoFormatCheck(o, d, registered) ==
  IF ~registered THEN ErrNoRenderer
  ELSE IF DocQuerySelector(d, o.injectSelector) = None THEN ErrNoRoot
  ELSE IF o.output \notin ImageOutput THEN ErrOutput
  ELSE NoError

ConfigError(o, d, registered) ==
  IF ~registered THEN ErrNoRenderer
  ELSE IF DocQuerySelector(d, o.injectSelector) = None THEN ErrNoRoot
  ELSE IF o.format \notin ImageFormat THEN ErrFormat
  ELSE IF o.output \notin ImageOutput THEN ErrOutput
  ELSE NoError

\* uuidv4: 122 random bits; two runs do not draw the same identifier
Uuidv4(r) == r

\* (mutant) the new div is not appended to the root
GetDetachedInjectorContainer(d, rt, renderId) == d

\* getInjectorContainer: a new div carrying the marker attribute, appended
\* to the root
GetInjectorContainer(d, rt, renderId) ==
  [d EXCEPT ![rt] = Append(@, Container(renderId))]

\* injectorRoot.querySelector(`[data-react-svg-image-injector-container="id"]`)
QueryMarker(d, rt, renderId) ==
  FirstOrNone(SelectSeq(Descendants(d, rt), LAMBDA n : n = Container(renderId)))

\* (mutant) the query asks for the marker attribute, whatever its value
RemoveFirstInjectorContainer(d, rt, renderId) ==
  LET injectorContainer ==
        FirstOrNone(SelectSeq(Descendants(d, rt), LAMBDA n : n[1] = "c"))
  IN  IF injectorContainer # None
      THEN RemoveChild(d, rt, injectorContainer)
      ELSE d

\* (mutant) nothing is removed
RemoveNoInjectorContainer(d, rt, renderId) == d

\* removeInjectorContainer
RemoveInjectorContainer(d, rt, renderId) ==
  LET injectorContainer == QueryMarker(d, rt, renderId)
  IN  IF injectorContainer # None
      THEN RemoveChild(d, rt, injectorContainer)
      ELSE d

\* the steps removeInjectorContainer adds to the log of a run
ReleaseLog(d, rt, renderId) ==
  IF QueryMarker(d, rt, renderId) # None THEN <<"released">> ELSE <<>>

\* (mutant) the catch rethrows whatever throwErrors says
OuterCatchRethrow(throwErrors, e) == Rejected(e)

\* (mutant) the catch swallows whatever throwErrors says
OuterCatchSwallow(throwErrors, e) == Resolved(EmptyString)

\* the other runs whose containers are in the document when run r removes
\* its container
PeersAt(d, rt, r) ==
  IF QueryMarker(d, rt, Uuidv4(r)) # None
  THEN {q \in Runs \ {r} : Attached(d, Container(q))}
  ELSE {}

\* the catch of renderSvgAsImage, lines 126-133
OuterCatch(throwErrors, e) ==
  IF throwErrors THEN Rejected(e) ELSE Resolved(EmptyString)

\* (mutant) only the first element of the list is removed
RemoveFirstOnly(d, els) ==
  IF els = <<>> THEN d
  ELSE LET p == ParentOf(d, Head(els))
       IN  IF p = None THEN d ELSE RemoveChild(d, p, Head(els))

\* els[i].parentNode?.removeChild(els[i]) for every element of els
RECURSIVE RemoveAll(_, _)
RemoveAll(d, els) ==
  IF els = <<>> THEN d
  ELSE LET p == ParentOf(d, Head(els))
       IN  RemoveAll(IF p = None THEN d ELSE RemoveChild(d, p, Head(els)),
                     Tail(els))

\* (mutant) only the first selector of the list is processed
StripFirstSelectorOnly(d, svg, sels) ==
  IF sels = <<>> THEN [dom |-> d, err |-> NoError]
  ELSE IF ~ValidSelector(Head(sels)) THEN [dom |-> d, err |-> ErrSyntax]
  ELSE [dom |-> RemoveAll(d, QuerySelectorAll(d, svg, Head(sels))), err |-> NoError]

\* normaliseSvg, lines 186-191: querySelectorAll throws on a selector that
\* does not parse; what earlier selectors removed stays removed
RECURSIVE StripIgnored(_, _, _)
StripIgnored(d, svg, sels) ==
  IF sels = <<>> THEN [dom |-> d, err |-> NoError]
  ELSE IF ~ValidSelector(Head(sels)) THEN [dom |-> d, err |-> ErrSyntax]
  ELSE StripIgnored(RemoveAll(d, QuerySelectorAll(d, svg, Head(sels))),
                    svg, Tail(sels))

\* window.getComputedStyle(source): what the cascade resolves for an element,
\* here from the style cs of the root; fill alternates down the positions
OtherFill(fill) == IF fill = "red" THEN "blue" ELSE "red"
ComputedStyle(cs, n) ==
  [fill |-> IF n[2] % 2 = 0 THEN cs.fill ELSE OtherFill(cs.fill),
   visibility |-> cs.visibility]

\* inlineStyles, lines 201-207: every computed property but visibility is
\* written on the target's style
\* (mutant) visibility is copied like the others
CopyStyleAll(computed, old) == computed

CopyStyle(computed, old) ==
  [fill |-> computed.fill, visibility |-> old.visibility]

\* inlineStyles(source, target), source an element of the tree sd and target
\* of the tree td: the styles st of the target's elements afterwards, and the
\* error thrown.  target.children[i] is undefined past the target's last
\* child, and reading the style of undefined throws
RECURSIVE InlineStyles(_, _, _, _, _, _)
RECURSIVE InlineChildren(_, _, _, _, _, _, _)
InlineStyles(sd, source, td, target, cs, st) ==
  IF target = None THEN [style |-> st, err |-> ErrNoTarget]
  ELSE InlineChildren(sd, source, td, target, cs,
         [st EXCEPT ![target] = CopyStyle(ComputedStyle(cs, source), @)], 1)

InlineChildren(sd, source, td, target, cs, st, i) ==
  IF i > Len(sd[source]) THEN [style |-> st, err |-> NoError]
  ELSE LET child == IF i <= Len(td[target]) THEN td[target][i] ELSE None
           done == InlineStyles(sd, sd[source][i], td, child, cs, st)
       IN  IF done.err # NoError THEN done
           ELSE InlineChildren(sd, source, td, target, cs, done.style, i + 1)

\* canvas.width = svgSize.width * scale: the attribute is an unsigned long,
\* the assigned number is truncated to an integer
CanvasPixels(side, scale) == (side * scale) \div (Den * Den)

\* copyToCanvas, lines 226-233
MakeCanvas(w, h, scale) ==
  [width |-> CanvasPixels(w, scale), height |-> CanvasPixels(h, scale),
   styleWidth |-> w, styleHeight |-> h]

\* `image/${format}`
Mime(format) ==
  CASE format = "png"  -> "image/png"
    [] format = "jpeg" -> "image/jpeg"
    [] format = "webp" -> "image/webp"
    [] OTHER           -> "image/?"

\* canvas.toDataURL(type) and canvas.toBlob(cb, type): a browser encodes
\* image/png when it does not support the type asked for; it always
\* supports image/png
Fallback(format, supported) == format # "png" /\ ~supported

EncodedMime(format, supported) ==
  IF Fallback(format, supported) THEN "image/png" ELSE Mime(format)

FallbackLog(format, supported) ==
  IF Fallback(format, supported) THEN <<"fallback_png">> ELSE <<>>

\* the canvas has pixels: neither side of its bitmap is zero
HasPixels(c) == c.width > 0 /\ c.height > 0

\* toDataUrl: canvas.toDataURL returns "data:," for a canvas without pixels
ToDataUrl(c, format, supported) ==
  IF HasPixels(c)
  THEN [type |-> "string", mime |-> EncodedMime(format, supported), text |-> "data:"]
  ELSE [type |-> "string", mime |-> "", text |-> "data:,"]

\* toOutput, lines 270-274: how its promise settles once the toBlob callback
\* has fired with a blob (blob = TRUE) or with null
\* (mutant) a null blob is returned as it is
BlobOutcomeNoNullCheck(blob, format, supported) ==
  IF ~blob THEN Resolved([type |-> "blob", mime |-> "", text |-> ""])
  ELSE Resolved([type |-> "blob", mime |-> EncodedMime(format, supported),
                 text |-> "blob"])

BlobOutcome(blob, format, supported) ==
  IF ~blob THEN Rejected(ErrEncode)
  ELSE Resolved([type |-> "blob", mime |-> EncodedMime(format, supported),
                 text |-> "blob"])

\* img.onload, lines 248-254: the steps it adds to the log of a run
\* (mutant) the image is not drawn
OnLoadStepsNoDraw == <<"decoded">>

OnLoadSteps == <<"decoded", "drawn">>

\* what the renderer mounts in the container: an <svg> with a <g
\* class="slot"> and a <circle>, or nothing with an <svg> in it
Contents == {"svg", "nosvg"}
Mount(d, r, content) ==
  IF content = "svg"
  THEN [d EXCEPT ![Container(r)] = <<Svg(r)>>, ![Svg(r)] = <<Slot(r), Circle(r)>>]
  ELSE d

----------------------------------------------------------------------------
(* The actions *)

\* setDomRenderer
SetDomRenderer ==
  /\ renderAsPromise' = TRUE
  /\ UNCHANGED <<dom, pc, opts, root, img, canvas, result, log, peers, pure>>

\* renderSvgAsImage up to its first await (lines 85-105)
Call(r, o) ==
  /\ pc[r] = "idle"
  /\ opts' = [opts EXCEPT ![r] = o]
  /\ LET err == ConfigError(o, dom, renderAsPromise)
         injectorRoot == DocQuerySelector(dom, o.injectSelector)
     IN  IF err # NoError
         THEN /\ result' = [result EXCEPT ![r] = OuterCatch(o.throwErrors, err)]
              /\ pc' = [pc EXCEPT ![r] = "done"]
              /\ UNCHANGED <<dom, root, log>>
         ELSE /\ dom' = GetInjectorContainer(dom, injectorRoot, Uuidv4(r))
              /\ root' = [root EXCEPT ![r] = injectorRoot]
              /\ log' = [log EXCEPT ![r] = <<"acquired", "invoked">>]
              /\ pc' = [pc EXCEPT ![r] = "rendering"]
              /\ UNCHANGED result
  /\ UNCHANGED <<renderAsPromise, img, canvas, peers, pure>>

\* renderSvgAsImage called without its options argument (README, line 324):
\* destructuring undefined throws before the try of line 85 is entered
CallNoOptions(r) ==
  /\ pc[r] = "idle"
  /\ opts' = [opts EXCEPT ![r] = Undefined]
  /\ result' = [result EXCEPT ![r] = Rejected(ErrDestructure)]
  /\ pc' = [pc EXCEPT ![r] = "done"]
  /\ UNCHANGED <<renderAsPromise, dom, root, img, canvas, log, peers, pure>>

\* the renderer rejects with e (lines 106-110, then 126-133)
RenderReject(r, e) ==
  /\ pc[r] = "rendering"
  /\ dom' = RemoveInjectorContainer(dom, root[r], Uuidv4(r))
  /\ log' = [log EXCEPT ![r] = @ \o <<"render_rejected", e>>
                                  \o ReleaseLog(dom, root[r], Uuidv4(r))]
  /\ peers' = [peers EXCEPT ![r] = PeersAt(dom, root[r], r)]
  /\ result' = [result EXCEPT ![r] = OuterCatch(opts[r].throwErrors, e)]
  /\ pc' = [pc EXCEPT ![r] = "done"]
  /\ UNCHANGED <<renderAsPromise, opts, root, img, canvas, pure>>

\* the renderer has mounted its content and resolves; the run goes on to the
\* await of copyToCanvas (lines 112-120, 184-194, 221-247).  w and h are the
\* sides of the <svg>'s bounding box, ctxt whether getContext gave a context
RenderResolve(r, content, w, h, ctxt) ==
  /\ pc[r] = "rendering"
  /\ LET mounted == Mount(dom, r, content)
         renderedSvg == QuerySelector(mounted, Container(r), "svg")
         stripped == StripIgnored(mounted, renderedSvg, opts[r].ignoreAllSelectors)
         Throw(d, steps, e) ==
           /\ dom' = d
           /\ log' = [log EXCEPT ![r] = @ \o steps]
           /\ result' = [result EXCEPT ![r] = OuterCatch(opts[r].throwErrors, e)]
           /\ pc' = [pc EXCEPT ![r] = "done"]
           /\ UNCHANGED img
     IN  IF renderedSvg = None
         THEN /\ Throw(RemoveInjectorContainer(mounted, root[r], Uuidv4(r)),
                       <<"rendered">> \o ReleaseLog(mounted, root[r], Uuidv4(r)),
                       ErrNoSvg)
              /\ peers' = [peers EXCEPT ![r] = PeersAt(mounted, root[r], r)]
              /\ UNCHANGED canvas
         ELSE IF stripped.err # NoError
         THEN /\ Throw(stripped.dom, <<"rendered">>, stripped.err)
              /\ UNCHANGED <<canvas, peers>>
         ELSE /\ UNCHANGED peers
              /\ canvas' = [canvas EXCEPT ![r] = MakeCanvas(w, h, opts[r].scale)]
              /\ IF ~ctxt
                 THEN Throw(stripped.dom,
                            <<"rendered", "sanitized", "inlined", "serialized",
                              "measured">>,
                            ErrNoContext)
                 ELSE /\ dom' = stripped.dom
                      /\ log' = [log EXCEPT ![r] = @ \o
                            <<"rendered", "sanitized", "inlined", "serialized",
                              "measured", "scaled">>]
                      /\ img' = [img EXCEPT ![r] = "loading"]
                      /\ pc' = [pc EXCEPT ![r] = "decoding"]
                      /\ UNCHANGED result
  /\ UNCHANGED <<renderAsPromise, opts, root, pure>>

\* the image has loaded: img.onload draws and resolves, the run calls
\* toOutput, removes its container and returns toOutput's promise
\* (lines 248-254, 121-125, 267-270)
ImgLoad(r, supported) ==
  /\ pc[r] = "decoding"
  /\ img[r] = "loading"
  /\ img' = [img EXCEPT ![r] = "loaded"]
  /\ dom' = RemoveInjectorContainer(dom, root[r], Uuidv4(r))
  /\ peers' = [peers EXCEPT ![r] = PeersAt(dom, root[r], r)]
  /\ IF opts[r].output = "data_url"
     THEN /\ log' = [log EXCEPT ![r] = @ \o OnLoadSteps
                                         \o (IF HasPixels(canvas[r])
                                             THEN FallbackLog(opts[r].format, supported)
                                             ELSE <<>>)
                                         \o <<"encoded">>
                                         \o ReleaseLog(dom, root[r], Uuidv4(r))]
          /\ result' = [result EXCEPT ![r] =
                          Resolved(ToDataUrl(canvas[r], opts[r].format, supported))]
          /\ pc' = [pc EXCEPT ![r] = "done"]
     ELSE /\ log' = [log EXCEPT ![r] = @ \o OnLoadSteps
                                         \o ReleaseLog(dom, root[r], Uuidv4(r))]
          /\ pc' = [pc EXCEPT ![r] = "encoding"]
          /\ UNCHANGED result
  /\ UNCHANGED <<renderAsPromise, opts, root, canvas, pure>>

\* the image fails to decode: the error event fires, and the <img> has no
\* onerror handler (lines 247-255), so nothing runs
ImgError(r) ==
  /\ pc[r] = "decoding"
  /\ img[r] = "loading"
  /\ img' = [img EXCEPT ![r] = "error"]
  /\ UNCHANGED <<renderAsPromise, dom, pc, opts, root, canvas, result, log, peers, pure>>

\* the callback of canvas.toBlob fires (lines 298, 270-274), with null when
\* the canvas has no pixels; the promise renderSvgAsImage returned follows
\* the promise of toOutput
BlobCallback(r, blob, supported) ==
  /\ pc[r] = "encoding"
  /\ blob => HasPixels(canvas[r])
  /\ result' = [result EXCEPT ![r] = BlobOutcome(blob, opts[r].format, supported)]
  /\ log' = [log EXCEPT ![r] = @ \o
       (IF blob THEN FallbackLog(opts[r].format, supported) \o <<"encoded">>
        ELSE <<"toblob_null">>)]
  /\ pc' = [pc EXCEPT ![r] = "done"]
  /\ UNCHANGED <<renderAsPromise, dom, opts, root, img, canvas, peers, pure>>

----------------------------------------------------------------------------
(* normaliseSvg's removal of the ignored elements, and inlineStyles, applied
   alone to the trees and selectors of a bounded set *)

\* a tree of k <= MaxTree elements below the root: the element at position
\* i <= k hangs below the root (0) or an earlier position p[i], children are
\* in the order of their positions, and the positions past k are not in the
\* tree
Shapes ==
  {p \in [1..MaxTree -> 0..(MaxTree + 1)] :
     \E k \in 0..MaxTree :
       \A i \in 1..MaxTree : IF i <= k THEN p[i] < i ELSE p[i] = MaxTree + 1}
TagMaps == [1..MaxTree -> TreeTags]

PositionOf(n, tags) ==
  IF n = TreeRoot THEN 0
  ELSE IF n \in TreeNodes /\ tags[0 - n[2]] = n[1] THEN 0 - n[2]
  ELSE 0 - 1

ChildrenAt(p, tags, k) ==
  LET at == SelectSeq([i \in 1..MaxTree |-> i], LAMBDA i : p[i] = k)
  IN  [j \in 1..Len(at) |-> TreeNode(tags[at[j]], at[j])]

TreeOf(p, tags) ==
  [n \in Nodes |-> IF PositionOf(n, tags) < 0 THEN <<>>
                   ELSE ChildrenAt(p, tags, PositionOf(n, tags))]

Trees == {TreeOf(p, tags) : p \in Shapes, tags \in TagMaps}

\* trees of <g> elements only, for inlineStyles
PlainTrees == {TreeOf(p, [i \in 1..MaxTree |-> "slot"]) : p \in Shapes}

PureSelectors == {".slot", "circle", "svg", ":empty"}
SelectorLists == UNION {[1..n -> PureSelectors] : n \in 0..MaxSels}

RootStyles == [fill : {"red", "blue"}, visibility : {"hidden", "visible"}]
TargetStyles == {NoStyle, [fill |-> "green", visibility |-> "collapse"]}

PureInputs ==
  {[PureIdle EXCEPT !.op = "sanitize", !.phase = "input", !.src = t, !.tgt = t,
                    !.sels = l] : t \in Trees, l \in SelectorLists}
  \cup
  {[PureIdle EXCEPT !.op = "inline", !.phase = "input", !.src = a, !.tgt = b,
                    !.cs = c, !.style0 = z, !.style = [n \in TreeNodes |-> z]] :
     a \in PlainTrees, b \in PlainTrees, c \in RootStyles, z \in TargetStyles}

PureInit == MainInit /\ pure \in PureInputs

\* normaliseSvg, lines 186-191, on the tree pure.src
StripStep ==
  /\ pure.op = "sanitize"
  /\ pure.phase = "input"
  /\ LET out == StripIgnored(pure.src, TreeRoot, pure.sels)
     IN  pure' = [pure EXCEPT !.phase = "output", !.tgt = out.dom, !.err = out.err]
  /\ UNCHANGED <<renderAsPromise, dom, pc, opts, root, img, canvas, result, log, peers>>

\* inlineStyles(source, target) on the roots of pure.src and pure.tgt
InlineStep ==
  /\ pure.op = "inline"
  /\ pure.phase = "input"
  /\ LET out == InlineStyles(pure.src, TreeRoot, pure.tgt, TreeRoot, pure.cs,
                             pure.style)
     IN  pure' = [pure EXCEPT !.phase = "output", !.style = out.style,
                              !.err = out.err]
  /\ UNCHANGED <<renderAsPromise, dom, pc, opts, root, img, canvas, result, log, peers>>

PureNext == StripStep \/ InlineStep

PureSpec == PureInit /\ [][PureNext]_vars

----------------------------------------------------------------------------
(* The specifications *)

\* one run, every combination of options
Next ==
  \/ SetDomRenderer
  \/ \E r \in SeqRuns, o \in SeqOptions : Call(r, o)
  \/ \E r \in SeqRuns : CallNoOptions(r)
  \/ \E r \in SeqRuns, e \in RenderErrors : RenderReject(r, e)
  \/ \E r \in SeqRuns, content \in Contents, w \in Dims, h \in Dims, ctxt \in BOOLEAN :
        RenderResolve(r, content, w, h, ctxt)
  \/ \E r \in SeqRuns, supported \in BOOLEAN : ImgLoad(r, supported)
  \/ \E r \in SeqRuns : ImgError(r)
  \/ \E r \in SeqRuns, blob \in BOOLEAN, supported \in BOOLEAN :
        BlobCallback(r, blob, supported)

Spec == Init /\ [][Next]_vars

\* the browser delivers the events a run waits for
Fairness ==
  \A r \in SeqRuns :
    /\ WF_vars((\E e \in RenderErrors : RenderReject(r, e)) \/ \E content \in Contents, w \in Dims, h \in Dims, ctxt \in BOOLEAN :
                  RenderResolve(r, content, w, h, ctxt))
    /\ WF_vars((\E supported \in BOOLEAN : ImgLoad(r, supported)) \/ ImgError(r))
    /\ WF_vars(\E blob \in BOOLEAN, supported \in BOOLEAN :
                  BlobCallback(r, blob, supported))

FairSpec == Init /\ [][Next]_vars /\ Fairness

\* several runs in flight together, each with the default format and scale
\* and a 2d context; a root may be the body, #app, or the first element of
\* class "slot" of the document, which is part of some run's rendered <svg>
ConcNext ==
  \/ SetDomRenderer
  \/ \E r \in Runs, o \in ConcOptions : Call(r, o)
  \/ \E r \in Runs : RenderReject(r, ErrRender)
  \/ \E r \in Runs, content \in Contents :
        RenderResolve(r, content, Den, Den, TRUE)
  \/ \E r \in Runs : ImgLoad(r, TRUE)
  \/ \E r \in Runs : ImgError(r)
  \/ \E r \in Runs, blob \in BOOLEAN : BlobCallback(r, blob, TRUE)

ConcSpec == Init /\ [][ConcNext]_vars

----------------------------------------------------------------------------
(* Vocabulary of the properties *)

Settled(res) == res.status # "pending"

\* a resolved promise carrying an image, not the empty string
IsArtifact(res) == res.status = "resolved" /\ res.text # ""

Count(s, x) == Cardinality({i \in 1..Len(s) : s[i] = x})

\* the position of the first x in s, 0 when there is none
IndexOf(s, x) ==
  IF InSeq(x, s)
  THEN CHOOSE i \in 1..Len(s) : s[i] = x /\ \A j \in 1..(i - 1) : s[j] # x
  ELSE 0

\* the run has created its container
Acquired(r) == InSeq("acquired", log[r])

\* the run's container is found under its root by its marker
ContainerPresent(r) == QueryMarker(dom, root[r], Uuidv4(r)) # None

\* the run has ended without encoding an image
Failed(r) == pc[r] = "done" /\ ~InSeq("encoded", log[r])

CeilDiv(a, b) == (a + b - 1) \div b

----------------------------------------------------------------------------
(* C1: once the promise of a run that created its container has settled,
   the container is gone from the root and was removed exactly once,
   whichever path the run took. *)
C1_ContainerReleasedOnEveryPath ==
  \A r \in Runs :
    (Settled(result[r]) /\ Acquired(r)) =>
      (~ContainerPresent(r) /\ Count(log[r], "released") = 1)

(* C2: a run that failed has rejected when throwErrors is true, and has
   resolved with the empty string when throwErrors is false. *)
C2_FailuresFollowThrowErrors ==
  \A r \in Runs :
    Failed(r) =>
      IF opts[r].throwErrors
      THEN result[r].status = "rejected"
      ELSE result[r] = Resolved(EmptyString)

(* C3: when the image fails to decode, the run eventually settles, and
   not with an artifact. *)
C3_DecodeFailureSettles ==
  \A r \in Runs :
    (img[r] = "error") ~> (Settled(result[r]) /\ ~IsArtifact(result[r]))

(* C4: a call whose configuration is invalid (no renderer registered, the
   selector matches nothing, a format or output outside the enumerations)
   ends at once in a configuration error, leaves the document as it was,
   creates no container and does not invoke the renderer; no container of
   such a run ever exists. *)
InvalidConfig(o) ==
  \/ ~renderAsPromise
  \/ DocQuerySelector(dom, o.injectSelector) = None
  \/ o.format \notin ImageFormat
  \/ o.output \notin ImageOutput

ConfigFailure(res, o) ==
  IF o.throwErrors
  THEN res.status = "rejected" /\ res.text \in ConfigErrors
  ELSE res = Resolved(EmptyString)

C4_InvalidCallStep ==
  \A r \in Runs :
    (pc[r] = "idle" /\ pc'[r] # "idle" /\ opts'[r] # Undefined
       /\ InvalidConfig(opts'[r])) =>
      /\ dom' = dom
      /\ log'[r] = <<>>
      /\ pc'[r] = "done"
      /\ ConfigFailure(result'[r], opts'[r])

C4_NoContainerWithoutAcquire ==
  \A r \in Runs :
    ~Acquired(r) =>
      /\ \A n \in Nodes : ~InSeq(Container(r), dom[n])
      /\ ~InSeq("invoked", log[r])

C4_ValidationBeforeMutation ==
  [](C4_NoContainerWithoutAcquire) /\ [][C4_InvalidCallStep]_vars

C4_Witness ==
  \E r \in Runs :
    /\ renderAsPromise
    /\ pc[r] = "done"
    /\ opts[r].format = "gif"
    /\ opts[r].injectSelector = "body"
    /\ result[r] = Rejected(ErrFormat)
    /\ log[r] = <<>>

(* C5: a successful run has executed the steps acquired, rendered,
   sanitized, inlined, serialized, rasterized (drawn), encoded, released
   in that order, and a run does not remove its container while its
   encoding is still to complete. *)
PipelineOrder ==
  <<"acquired", "rendered", "sanitized", "inlined", "serialized", "drawn",
    "encoded", "released">>

PipelineSteps == {PipelineOrder[i] : i \in 1..Len(PipelineOrder)}

C5_StepsInPipelineOrder ==
  \A r \in Runs :
    /\ (pc[r] = "done" /\ InSeq("encoded", log[r])) =>
         SelectSeq(log[r], LAMBDA e : e \in PipelineSteps) = PipelineOrder
    /\ pc[r] = "encoding" => ~InSeq("released", log[r])

(* C6: a run that removes its container leaves the container of every
   other run in flight where it is, attached to the document, with the
   same content. *)
\* the run is in flight and has not removed its container
Holding(q) == pc[q] \in {"rendering", "decoding"}

\* the step removes the container of run r
Releases(r) == Count(log'[r], "released") > Count(log[r], "released")

OwnNodes(q) == {Container(q), Svg(q), Slot(q), Circle(q)}

Untouched(q) ==
  /\ \A n \in OwnNodes(q) : dom'[n] = dom[n]
  /\ Count(dom'[root[q]], Container(q)) = Count(dom[root[q]], Container(q))
  /\ Attached(dom, Container(q)) => Attached(dom', Container(q))

\* the original statement: whatever the roots of the runs
C6_RemovalNeverTouchesOthers ==
  [][\A q \in Runs, r \in Runs :
       (q # r /\ Holding(q) /\ Releases(r)) => Untouched(q)]_vars

\* an element that is in no run's container
Static(n) == n \in {Body, App}

C6_MarkersDistinct ==
  \A q \in Runs :
    (Holding(q) /\ Static(root[q])) =>
      /\ QueryMarker(dom, root[q], Uuidv4(q)) = Container(q)
      /\ Count(dom[root[q]], Container(q)) = 1
      /\ Attached(dom, Container(q))
      /\ \A r \in Runs \ {q} : Uuidv4(r) # Uuidv4(q)

\* the amended statement: for runs whose roots are in no run's container
C6_RemovalNeverTouchesOthersOutside ==
  /\ [](C6_MarkersDistinct)
  /\ [][\A q \in Runs, r \in Runs :
          (q # r /\ Holding(q) /\ Releases(r) /\ Static(root[q]) /\ Static(root[r]))
            => Untouched(q)]_vars

C6_Witness ==
  \E q \in Runs, r \in Runs :
    /\ q # r
    /\ Holding(q)
    /\ root[q] = Body
    /\ root[r] = Body
    /\ q \in peers[r]
    /\ Attached(dom, Container(q))
    /\ dom[Container(q)] = <<Svg(q)>>

(* C7: in blob mode, when the toBlob callback fires with null the run's
   promise rejects with the "could not convert" error, whatever
   throwErrors is, and until the callback has fired the promise stays
   pending. *)
C7_NullBlobIsAnError ==
  \A r \in Runs :
    /\ InSeq("toblob_null", log[r]) => result[r] = Rejected(ErrEncode)
    /\ pc[r] = "encoding" => result[r] = Pending

C7_Witness ==
  \E r \in Runs :
    /\ opts[r].output = "blob"
    /\ InSeq("toblob_null", log[r])
    /\ pc[r] = "done"
    /\ result[r] = Rejected(ErrEncode)

(* C8: with throwErrors false, a run whose renderer rejected has resolved
   with the empty string and its container is no longer under the root. *)
C8_SuppressedRenderReject ==
  \A r \in Runs :
    (InSeq("render_rejected", log[r]) /\ ~opts[r].throwErrors) =>
      /\ result[r] = Resolved(EmptyString)
      /\ ~ContainerPresent(r)
      /\ ~Attached(dom, Container(r))

C8_Witness ==
  \E r \in Runs :
    /\ InSeq("render_rejected", log[r])
    /\ ~opts[r].throwErrors
    /\ result[r] = Resolved(EmptyString)
    /\ Count(log[r], "released") = 1

(* C9: the bounding box is read before the sanitizer removes elements,
   before styles are inlined and before the tree is serialized. *)
C9_MeasuredBeforeNormalisation ==
  \A r \in Runs :
    InSeq("measured", log[r]) =>
      \A e \in {"sanitized", "inlined", "serialized"} :
        InSeq(e, log[r]) => IndexOf(log[r], "measured") < IndexOf(log[r], e)

(* C10: the canvas is ceil(w * scale) pixels wide and ceil(h * scale)
   pixels high, w and h being its logical (style) width and height. *)
C10_PixelsAreCeiling ==
  \A r \in Runs :
    canvas[r] # NoCanvas =>
      /\ canvas[r].width = CeilDiv(canvas[r].styleWidth * opts[r].scale, Den * Den)
      /\ canvas[r].height = CeilDiv(canvas[r].styleHeight * opts[r].scale, Den * Den)

----------------------------------------------------------------------------
(* Vocabulary of the properties of normaliseSvg and inlineStyles alone *)

Out(op) == pure.op = op /\ pure.phase = "output"

SeqSet(q) == {q[i] : i \in 1..Len(q)}

\* the elements below the root before and after the step
Before == SeqSet(Descendants(pure.src, TreeRoot))
After  == SeqSet(Descendants(pure.tgt, TreeRoot))

\* element n of the tree given matches some selector of the list
MatchesAny(n) == \E i \in 1..Len(pure.sels) : Matches(pure.src, n, pure.sels[i])

\* a selector that matches an element by the element's own tag or class
SimpleSelectors == {".slot", "circle", "svg"}
AllSimple == \A i \in 1..Len(pure.sels) : pure.sels[i] \in SimpleSelectors

\* n lies below an element that matches a selector
BelowMatch(n) ==
  \E m \in Before : MatchesAny(m) /\ InSeq(n, Descendants(pure.src, m))

\* the element is still in the tree, with its children that match no selector
Kept(n) ==
  /\ n \in After \cup {TreeRoot}
  /\ pure.tgt[n] = SelectSeq(pure.src[n], LAMBDA c : ~MatchesAny(c))

(* C11: after the sanitizing step no element of the tree, the root
   included, matches a selector of the list, and every element that
   matches none and is not below a removed element is still there with
   its children in order. *)
C11_NothingMatchesAfterwards ==
  Out("sanitize") =>
    /\ \A n \in After \cup {TreeRoot}, i \in 1..Len(pure.sels) :
         ~Matches(pure.tgt, n, pure.sels[i])
    /\ \A n \in Before \cup {TreeRoot} :
         (~MatchesAny(n) /\ ~BelowMatch(n)) => Kept(n)

(* C11 as amended: for selectors that go by the element's own tag or class,
   no element below the root matches afterwards, and the root and every
   element that matches no selector and is not below a removed element are
   still there with their children that were not removed, in order. *)
C11_NoDescendantMatchesAfterwards ==
  (Out("sanitize") /\ AllSimple) =>
    /\ pure.err = NoError
    /\ \A n \in After, i \in 1..Len(pure.sels) :
         ~Matches(pure.tgt, n, pure.sels[i])
    /\ \A n \in Before \cup {TreeRoot} :
         ((n = TreeRoot \/ ~MatchesAny(n)) /\ ~BelowMatch(n)) => Kept(n)

C11_Witness ==
  /\ Out("sanitize")
  /\ AllSimple
  /\ Len(pure.sels) = 2
  /\ Cardinality(Before \ After) >= 2
  /\ After # {}
  /\ \E n \in Before : MatchesAny(n) /\ BelowMatch(n)

(* C12: the sanitizing step leaves the same tree for every ordering of the
   selector list; it raises no error when a match lies below an element
   already removed, and it removes nothing but the matches and what lies
   below them. *)
Orderings(l) ==
  {[i \in 1..Len(l) |-> l[f[i]]] :
     f \in {g \in [1..Len(l) -> 1..Len(l)] :
              \A i \in 1..Len(l), j \in 1..Len(l) : g[i] = g[j] => i = j}}

\* the tree below the root is the same in d as after the step
SameTreeAs(d) ==
  /\ SeqSet(Descendants(d, TreeRoot)) = After
  /\ \A n \in After \cup {TreeRoot} : d[n] = pure.tgt[n]

C13_LiveTreeUntouched ==
  \A r \in Runs :
    (InSeq("rendered", log[r]) /\ dom[Container(r)] = <<Svg(r)>>) =>
      dom[Svg(r)] = Mount(dom, r, "svg")[Svg(r)]

\* the two trees handed to inlineStyles have the same child counts at every
\* level the lock-step walk from s and t reaches
RECURSIVE Congruent(_, _)
Congruent(s, t) ==
  /\ Len(pure.src[s]) = Len(pure.tgt[t])
  /\ \A i \in 1..Len(pure.src[s]) : Congruent(pure.src[s][i], pure.tgt[t][i])

\* the pairs <<source, target>> of the lock-step walk from s and t
RECURSIVE PairsOf(_, _)
PairsOf(s, t) ==
  {<<s, t>>} \cup
  UNION {PairsOf(pure.src[s][i], pure.tgt[t][i]) :
           i \in 1..(IF Len(pure.src[s]) < Len(pure.tgt[t])
                     THEN Len(pure.src[s]) ELSE Len(pure.tgt[t]))}

Styled(n) == pure.style[n].fill # pure.style0.fill

(* C14: after inlineStyles on congruent trees every target of a pair holds
   its source's computed value of every property but visibility, and
   visibility is written on no target, so the container's "hidden" never
   reaches the serialized tree. *)
C14_StylesCopiedButVisibility ==
  Out("inline") =>
    /\ \A n \in TreeNodes : pure.style[n].visibility = pure.style0.visibility
    /\ Congruent(TreeRoot, TreeRoot) =>
         /\ pure.err = NoError
         /\ \A pr \in PairsOf(TreeRoot, TreeRoot) :
              pure.style[pr[2]].fill = ComputedStyle(pure.cs, pr[1]).fill

C14_Witness ==
  /\ Out("inline")
  /\ Congruent(TreeRoot, TreeRoot)
  /\ pure.cs.visibility = "hidden"
  /\ pure.style0 # NoStyle
  /\ \E pr \in PairsOf(TreeRoot, TreeRoot) :
       /\ pr[1] # pr[2]
       /\ ComputedStyle(pure.cs, pr[1]).fill # ComputedStyle(pure.cs, pr[2]).fill
       /\ pure.style[pr[2]].fill = ComputedStyle(pure.cs, pr[1]).fill

(* C20: inlineStyles on trees whose child counts differ at some level of the
   walk fails with an error; it never completes normally with nodes left
   unstyled. *)
C20_MismatchFails ==
  (Out("inline") /\ ~Congruent(TreeRoot, TreeRoot)) => pure.err # NoError

----------------------------------------------------------------------------
(* C15: a run whose renderer rejected with e has removed its container, has
   sanitized, rasterized and encoded nothing, and with throwErrors has
   rejected with e itself. *)
C15_RenderRejectReleasesAndRethrows ==
  \A r \in Runs :
    InSeq("render_rejected", log[r]) =>
      \E e \in RenderErrors :
        /\ log[r] = <<"acquired", "invoked", "render_rejected", e, "released">>
        /\ ~Attached(dom, Container(r))
        /\ canvas[r] = NoCanvas
        /\ opts[r].throwErrors => result[r] = Rejected(e)

C15_Witness ==
  \E r \in Runs :
    /\ InSeq("render_rejected", log[r])
    /\ opts[r].throwErrors
    /\ result[r] = Rejected(ErrRenderOther)

\* the renderer of run r resolved and left no <svg> in the container
NoSvgRendered(r) ==
  InSeq("rendered", log[r]) /\ QuerySelector(dom, Container(r), "svg") = None

(* C16: a run whose renderer resolved without an <svg> in the container has
   removed its container, has raised the missing-output error, which is
   none of the configuration and render errors, and has sanitized,
   rasterized and encoded nothing. *)
C16_MissingSvgReleasesAndFails ==
  \A r \in Runs :
    NoSvgRendered(r) =>
      /\ log[r] = <<"acquired", "invoked", "rendered", "released">>
      /\ ~Attached(dom, Container(r))
      /\ canvas[r] = NoCanvas
      /\ result[r] = OuterCatch(opts[r].throwErrors, ErrNoSvg)
      /\ ErrNoSvg \notin ConfigErrors \cup RenderErrors

C16_Witness ==
  \E r \in Runs : NoSvgRendered(r) /\ result[r] = Rejected(ErrNoSvg)

\* the run has resolved with what the encoder gave
Successful(r) == result[r].status = "resolved" /\ InSeq("encoded", log[r])

(* C17: a successful run resolves with a non-empty artifact of the kind
   asked for, a string for data_url and a blob for blob, encoded with the
   MIME type image/<format> of the format asked for. *)
C17_ArtifactOfRequestedKindAndFormat ==
  \A r \in Runs :
    Successful(r) =>
      /\ result[r].type = (IF opts[r].output = "data_url" THEN "string" ELSE "blob")
      /\ result[r].text # ""
      /\ result[r].mime = Mime(opts[r].format)

(* C18: a call without the options argument, made once the renderer is set,
   goes on with the defaults: it creates its container under body and
   invokes the renderer, and does not fail for the missing options. *)
C18_NoOptionsRunsWithDefaults ==
  [][\A r \in Runs :
       (renderAsPromise /\ pc[r] = "idle" /\ pc'[r] # "idle"
          /\ opts'[r] = Undefined) =>
         /\ pc'[r] = "rendering"
         /\ root'[r] = Body
         /\ log'[r] = <<"acquired", "invoked">>
         /\ result'[r] = Pending]_vars

(* C19: the canvas is drawn on at most once in a run and exactly once in a
   run that encodes; the draw comes after the scale transform and after the
   decode, and the encoder reads after the draw. *)
C19_DrawnOnceBetweenDecodeAndEncode ==
  \A r \in Runs :
    /\ Count(log[r], "drawn") <= 1
    /\ InSeq("drawn", log[r]) =>
         /\ 0 < IndexOf(log[r], "scaled")
         /\ IndexOf(log[r], "scaled") < IndexOf(log[r], "drawn")
         /\ 0 < IndexOf(log[r], "decoded")
         /\ IndexOf(log[r], "decoded") < IndexOf(log[r], "drawn")
    /\ InSeq("encoded", log[r]) =>
         /\ Count(log[r], "drawn") = 1
         /\ IndexOf(log[r], "drawn") < IndexOf(log[r], "encoded")

C19_Witness ==
  \E r \in Runs :
    /\ InSeq("encoded", log[r])
    /\ opts[r].output = "blob"
    /\ IsArtifact(result[r])

\* the step invokes the renderer of run r
Invokes(r) == Count(log'[r], "invoked") > Count(log[r], "invoked")

(* C21: the renderer of a run is invoked at most once, in the step that
   found every configuration check passing, with a container that is then a
   child of the injector root and is found there by the run's marker; a call
   that fails validation, or fails before it, invokes nothing. *)
C21_InvokedOnceAfterValidation ==
  [][\A r \in Runs :
       /\ Count(log'[r], "invoked") <= 1
       /\ Invokes(r) =>
            /\ pc[r] = "idle"
            /\ opts'[r] # Undefined
            /\ ~InvalidConfig(opts'[r])
            /\ root'[r] = DocQuerySelector(dom, opts'[r].injectSelector)
            /\ InSeq(Container(r), dom'[root'[r]])
            /\ QueryMarker(dom', root'[r], Uuidv4(r)) = Container(r)
       /\ (pc[r] = "idle" /\ pc'[r] # "idle"
             /\ (opts'[r] = Undefined \/ InvalidConfig(opts'[r]))) =>
            /\ ~InSeq("invoked", log'[r])
            /\ pc'[r] = "done"]_vars

C21_Witness ==
  \E r \in Runs :
    /\ pc[r] = "rendering"
    /\ log[r] = <<"acquired", "invoked">>
    /\ root[r] = App
    /\ InSeq(Container(r), dom[App])
    /\ opts[r].format = "webp"

====
